---- MODULE Spec2Model ----
(***************************************************************************)
(* Model of pkg/builder/webhook.go: the WebhookBuilder, which resolves a   *)
(* type's GroupVersionKind, registers a mutating and a validating webhook  *)
(* for it on the manager's webhook server unless the path is already       *)
(* handled, and runs an advisory conversion check.                         *)
(*                                                                         *)
(* Strings are sequences of one-character strings, so that path            *)
(* generation (dot replacement, lowercasing, concatenation) is computed    *)
(* character by character as strings.Replace / strings.ToLower do.         *)
(***************************************************************************)
EXTENDS Naturals, Sequences, FiniteSets, TLC

VARIABLES
    builders,     \* builder id -> WebhookBuilder struct {apiType, gvk, mgr, config}
    mux,          \* the webhook server's WebhookMux: pattern -> handler
    registerLog,  \* every Server.Register(path, hook) invocation, in order
    ncalls,       \* number of builder method calls (For, Complete) made so far
    completed,    \* types for which some Complete() has returned nil
    last,         \* record of the most recent finished Complete() call
    pc,           \* builder id -> position of its running Complete() (interleaved runs)
    loc,          \* builder id -> locals of its running Complete() (interleaved runs)
    gvkIn,        \* the GroupVersionKind handed to the path generators
    pathOut       \* the paths the generators returned for gvkIn

vars == <<builders, mux, registerLog, ncalls, completed, last, pc, loc, gvkIn, pathOut>>

-----------------------------------------------------------------------------
(* Bounds *)

MaxCalls == 5
MaxGroupLen == 2
MaxVersionLen == 2
MaxKindLen == 1

-----------------------------------------------------------------------------
(* Strings *)

\* strings.Replace(s, ".", "-", -1): every dot becomes a dash
ReplaceDots(s) == [i \in 1..Len(s) |-> IF s[i] = "." THEN "-" ELSE s[i]]

ToLowerChar(c) ==
    CASE c = "J" -> "j"
      [] c = "P" -> "p"
      [] c = "C" -> "c"
      [] c = "K" -> "k"
      [] OTHER -> c

\* strings.ToLower(s)
ToLower(s) == [i \in 1..Len(s) |-> ToLowerChar(s[i])]

MutatePrefix == <<"/", "m", "u", "t", "a", "t", "e", "-">>
ValidatePrefix == <<"/", "v", "a", "l", "i", "d", "a", "t", "e", "-">>

generateMutatePath_NoVersion(gvk) ==
    MutatePrefix \o ReplaceDots(gvk.Group) \o <<"-">> \o ToLower(gvk.Kind)

generateMutatePath(gvk) ==
    MutatePrefix \o ReplaceDots(gvk.Group) \o <<"-">> \o
        gvk.Version \o <<"-">> \o ToLower(gvk.Kind)

generateValidatePath(gvk) ==
    ValidatePrefix \o ReplaceDots(gvk.Group) \o <<"-">> \o
        gvk.Version \o <<"-">> \o ToLower(gvk.Kind)

-----------------------------------------------------------------------------
(* The host: types, the manager's scheme, handlers, the webhook server *)

Nil == "nil"

GVK(g, v, k) == [Group |-> g, Version |-> v, Kind |-> k]
EmptyGVK == GVK(<<>>, <<>>, <<>>)

\* The runtime.Object types handed to For(); NilType is a builder whose For() was
\* never called.
NilType == "NilType"
Types == {"Both", "OnlyDefaulter", "OnlyValidator", "Neither", "NullHooks",
         "Unregistered"}

\* mgr.GetScheme(): the registered types and their kinds. OnlyValidator's kind
\* differs from Both's only in spelling (dash for dot, lower case).
Scheme ==
    ("Both" :> GVK(<<"a", ".", "b">>, <<"v", "1">>, <<"J", "o", "b">>)) @@
    ("OnlyValidator" :> GVK(<<"a", "-", "b">>, <<"v", "1">>, <<"j", "o", "b">>)) @@
    ("OnlyDefaulter" :> GVK(<<"a", ".", "b">>, <<"v", "1">>, <<"P", "o", "d">>)) @@
    ("Neither" :> GVK(<<"a", ".", "b">>, <<"v", "1">>, <<"C", "a", "t">>)) @@
    ("NullHooks" :> GVK(<<"a", ".", "b">>, <<"v", "2">>, <<"J", "o", "b">>))

\* apiutil.GVKForObject(obj, scheme): the kind of a registered type, an error for
\* any other object (a nil object included).
GVKForObject(obj, scheme) ==
    IF obj \in DOMAIN scheme
    THEN [gvk |-> scheme[obj], err |-> Nil]
    ELSE [gvk |-> EmptyGVK, err |-> "TypeResolutionError"]

\* apiType.(admission.Defaulter) / apiType.(admission.Validator)
IsDefaulter(t) == t \in {"Both", "OnlyDefaulter", "NullHooks", "Unregistered"}
IsValidator(t) == t \in {"Both", "OnlyValidator", "NullHooks", "Unregistered"}

HandlerRec(kind, type, call) == [kind |-> kind, type |-> type, call |-> call]
NilHandler == HandlerRec("nil", Nil, 0)
NotFoundHandler == HandlerRec("notFound", Nil, 0)
RedirectHandler == HandlerRec("redirect", Nil, 0)
OtherHandler == HandlerRec("other", Nil, 0)

\* admission.DefaultingWebhookFor / ValidatingWebhookFor: a new webhook per call,
\* or a nil one.
DefaultingWebhookFor(t, call) ==
    IF t = "NullHooks" THEN NilHandler ELSE HandlerRec("mutating", t, call)
ValidatingWebhookFor(t, call) ==
    IF t = "NullHooks" THEN NilHandler ELSE HandlerRec("validating", t, call)

\* conversion.CheckConvertibility(scheme, obj): whether the type's versions
\* convert consistently; it fails for Both and OnlyValidator.
CheckConvertibility(scheme, obj) ==
    IF obj \in {"Both", "OnlyValidator"} THEN "ConversionError" ELSE Nil

IsPrefix(s, t) == Len(s) <= Len(t) /\ SubSeq(t, 1, Len(s)) = s

\* http.ServeMux.match: an exact pattern first, else the longest pattern ending in
\* "/" that is a prefix of the path.
MuxMatch(m, path) ==
    IF path \in DOMAIN m
    THEN [h |-> m[path], p |-> path]
    ELSE LET c == {pat \in DOMAIN m : pat[Len(pat)] = "/" /\ IsPrefix(pat, path)}
         IN  IF c = {}
             THEN [h |-> NilHandler, p |-> <<>>]
             ELSE LET best == CHOOSE pat \in c : \A q \in c : Len(q) <= Len(pat)
                  IN  [h |-> m[best], p |-> best]

\* http.ServeMux.Handler(r) for a request with only URL.Path set: a redirect to
\* path+"/" when only that is registered, the matching handler and its pattern,
\* or the not-found handler with the empty pattern. The generated paths are
\* already clean, so cleanPath leaves them alone.
MuxHandler(m, path) ==
    IF path \notin DOMAIN m /\ (path \o <<"/">>) \in DOMAIN m
    THEN [h |-> RedirectHandler, p |-> path \o <<"/">>]
    ELSE LET r == MuxMatch(m, path)
         IN  IF r.h = NilHandler THEN [h |-> NotFoundHandler, p |-> <<>>] ELSE r

-----------------------------------------------------------------------------
(* The builder. A call context ctx carries the builder struct, the server's  *)
(* mux as the call sees it, the Register calls and the collaborator calls    *)
(* made so far, what was logged, the call's number and its return value.     *)

NewBuilder(m) == [apiType |-> NilType, gvk |-> EmptyGVK, mgr |-> m, config |-> Nil]

NewCtx(blder, m, call) ==
    [blder |-> blder, mux |-> m, reg |-> <<>>, trace |-> <<>>, logged |-> <<>>,
     call |-> call, ret |-> "none"]

Did(ctx, what) == [ctx EXCEPT !.trace = Append(@, what)]

\* Server.Register(path, hook): the hook is stored under the path.
Register(ctx, path, hook) ==
    [Did(ctx, "Register") EXCEPT !.mux = (path :> hook) @@ @,
                                 !.reg = Append(@, path)]

isAlreadyHandled_Never(ctx, path) == FALSE

isAlreadyHandled_PrefixMatch(ctx, path) ==
    LET r == MuxHandler(ctx.mux, path) IN r.p # <<>> /\ r.h # NilHandler

isAlreadyHandled(ctx, path) ==
    LET r == MuxHandler(ctx.mux, path)
    IN  IF r.p = path /\ r.h # NilHandler THEN TRUE ELSE FALSE

registerDefaultingWebhook_NoCheck(ctx) ==
    LET c0 == Did(ctx, "Defaulter?")
    IN  IF IsDefaulter(ctx.blder.apiType)
        THEN LET mwh == DefaultingWebhookFor(ctx.blder.apiType, ctx.call)
                 c1 == Did(c0, "DefaultingWebhookFor")
             IN  IF mwh # NilHandler
                 THEN Register(c1, generateMutatePath(ctx.blder.gvk), mwh)
                 ELSE c1
        ELSE c0

registerDefaultingWebhook(ctx) ==
    LET c0 == Did(ctx, "Defaulter?")
    IN  IF IsDefaulter(ctx.blder.apiType)
        THEN LET mwh == DefaultingWebhookFor(ctx.blder.apiType, ctx.call)
                 c1 == Did(c0, "DefaultingWebhookFor")
             IN  IF mwh # NilHandler
                 THEN LET path == generateMutatePath(ctx.blder.gvk)
                      IN  IF ~isAlreadyHandled(c1, path)
                          THEN Register(c1, path, mwh)
                          ELSE c1
                 ELSE c1
        ELSE c0

registerValidatingWebhook_MutatePath(ctx) ==
    LET c0 == Did(ctx, "Validator?")
    IN  IF IsValidator(ctx.blder.apiType)
        THEN LET vwh == ValidatingWebhookFor(ctx.blder.apiType, ctx.call)
                 c1 == Did(c0, "ValidatingWebhookFor")
             IN  IF vwh # NilHandler
                 THEN LET path == generateMutatePath(ctx.blder.gvk)
                      IN  IF ~isAlreadyHandled(c1, path)
                          THEN Register(c1, path, vwh)
                          ELSE c1
                 ELSE c1
        ELSE c0

registerValidatingWebhook(ctx) ==
    LET c0 == Did(ctx, "Validator?")
    IN  IF IsValidator(ctx.blder.apiType)
        THEN LET vwh == ValidatingWebhookFor(ctx.blder.apiType, ctx.call)
                 c1 == Did(c0, "ValidatingWebhookFor")
             IN  IF vwh # NilHandler
                 THEN LET path == generateValidatePath(ctx.blder.gvk)
                      IN  IF ~isAlreadyHandled(c1, path)
                          THEN Register(c1, path, vwh)
                          ELSE c1
                 ELSE c1
        ELSE c0

\* err = conversion.CheckConvertibility(scheme, apiType), the log line on its
\* failure, and return nil either way.
checkConversion(ctx) ==
    LET err == CheckConvertibility(Scheme, ctx.blder.apiType)
        c0 == Did(ctx, "CheckConvertibility")
        c1 == IF err # Nil
              THEN [c0 EXCEPT !.logged = Append(@, "conversion check failed")]
              ELSE c0
    IN  [c1 EXCEPT !.ret = Nil]

\* blder.gvk, err = GVKForObject(blder.apiType, blder.mgr.GetScheme()): calling
\* GetScheme on a nil manager panics.
resolveGVK(ctx) ==
    IF ctx.blder.mgr = Nil
    THEN [ctx EXCEPT !.ret = "panic"]
    ELSE LET r == GVKForObject(ctx.blder.apiType, Scheme)
         IN  [Did(ctx, "GVKForObject") EXCEPT !.blder.gvk = r.gvk,
                 !.ret = IF r.err # Nil THEN r.err ELSE @]

registerWebhooks_IgnoreGVKErr(ctx) ==
    LET c1 == resolveGVK(ctx)
    IN  IF c1.ret = "panic"
        THEN c1
        ELSE checkConversion(
                 registerValidatingWebhook(registerDefaultingWebhook(
                     [c1 EXCEPT !.ret = "none"])))

registerWebhooks_ReturnConvErr(ctx) ==
    LET c1 == resolveGVK(ctx)
    IN  IF c1.ret # "none"
        THEN c1
        ELSE LET c2 == checkConversion(
                     registerValidatingWebhook(registerDefaultingWebhook(c1)))
             IN  IF c2.logged # <<>> THEN [c2 EXCEPT !.ret = "ConversionError"] ELSE c2

registerWebhooks(ctx) ==
    LET c1 == resolveGVK(ctx)
    IN  IF c1.ret # "none"
        THEN c1
        ELSE checkConversion(
                 registerValidatingWebhook(registerDefaultingWebhook(c1)))

loadRestConfig_IgnoreErr(ctx, ambientOk) ==
    IF ctx.blder.config # Nil
    THEN ctx
    ELSE IF ctx.blder.mgr # Nil
         THEN [ctx EXCEPT !.blder.config = "mgrConfig"]
         ELSE IF ambientOk
              THEN [Did(ctx, "getConfig") EXCEPT !.blder.config = "ambientConfig"]
              ELSE Did(ctx, "getConfig")

\* On failure getConfig returns a nil config with the error.
loadRestConfig(ctx, ambientOk) ==
    IF ctx.blder.config # Nil
    THEN ctx
    ELSE IF ctx.blder.mgr # Nil
         THEN [ctx EXCEPT !.blder.config = "mgrConfig"]
         ELSE IF ambientOk
              THEN [Did(ctx, "getConfig") EXCEPT !.blder.config = "ambientConfig"]
              ELSE [Did(ctx, "getConfig") EXCEPT !.ret = "ConfigResolutionError"]

Complete(ctx, ambientOk) ==
    LET c1 == loadRestConfig(ctx, ambientOk)
    IN  IF c1.ret # "none" THEN c1 ELSE registerWebhooks(c1)

-----------------------------------------------------------------------------
(* Sequential use: every Complete() runs to its end before the next call *)

Builders == {1, 2}

\* What other components may have put on the server's mux beforehand: nothing,
\* the catch-all subtree, one of the generated paths, or the catch-all subtree
\* and a generated path with a slash added.
PreMuxes ==
    {{}, {<<"/">>}, {generateMutatePath(Scheme["Both"])},
     {<<"/">>, generateValidatePath(Scheme["Both"]) \o <<"/">>}}

NoCall ==
    [b |-> 0, apiType |-> NilType, config |-> Nil, ambient |-> "notAsked",
     before |-> <<>>, ret |-> "none", trace |-> <<>>, reg |-> <<>>, logged |-> <<>>,
     repeat |-> FALSE]

\* The locals of a running Complete(): its call number, and the path and hook it
\* is about to register.
NoLocals == [call |-> 0, path |-> <<>>, hook |-> NilHandler]

NoPaths == [mutate |-> <<>>, validate |-> <<>>]

Init ==
    /\ builders \in [Builders -> {NewBuilder("mgr"), NewBuilder(Nil)}]
    /\ builders[1].mgr = "mgr"
    /\ \E pre \in PreMuxes : mux = [p \in pre |-> OtherHandler]
    /\ registerLog = <<>>
    /\ ncalls = 0
    /\ completed = {}
    /\ last = NoCall
    /\ pc = [b \in Builders |-> "idle"]
    /\ loc = [b \in Builders |-> NoLocals]
    /\ gvkIn = EmptyGVK
    /\ pathOut = NoPaths

\* blder.For(apiType)
For(b, t) ==
    /\ ncalls < MaxCalls
    /\ ncalls' = ncalls + 1
    /\ builders' = [builders EXCEPT ![b].apiType = t]
    /\ UNCHANGED <<mux, registerLog, completed, last, pc, loc, gvkIn, pathOut>>

\* blder.Complete(), start to end
CallComplete(b) ==
    /\ ncalls < MaxCalls
    /\ \E ambientOk \in BOOLEAN :
         LET out == Complete(NewCtx(builders[b], mux, ncalls + 1), ambientOk)
         IN  /\ builders' = [builders EXCEPT ![b] = out.blder]
             /\ mux' = out.mux
             /\ registerLog' = registerLog \o out.reg
             /\ ncalls' = ncalls + 1
             /\ completed' = IF out.ret = Nil
                             THEN completed \cup {builders[b].apiType}
                             ELSE completed
             /\ last' = [b |-> b, apiType |-> builders[b].apiType,
                         config |-> builders[b].config,
                         ambient |-> IF \E i \in DOMAIN out.trace :
                                           out.trace[i] = "getConfig"
                                     THEN IF ambientOk THEN "ok" ELSE "fail"
                                     ELSE "notAsked",
                         before |-> mux, ret |-> out.ret, trace |-> out.trace,
                         reg |-> out.reg, logged |-> out.logged,
                         repeat |-> builders[b].apiType \in completed]
    /\ UNCHANGED <<pc, loc, gvkIn, pathOut>>

Next ==
    \/ \E b \in Builders, t \in Types : For(b, t)
    \/ \E b \in Builders : CallComplete(b)

Spec == Init /\ [][Next]_vars

-----------------------------------------------------------------------------
(* Properties of sequential use *)

Count(seq, x) == Cardinality({i \in DOMAIN seq : seq[i] = x})
Called(what) == \E i \in DOMAIN last.trace : last.trace[i] = what
Finished == last.b # 0
ViaManager == builders[last.b].mgr # Nil
HasMutating(t) == IsDefaulter(t) /\ DefaultingWebhookFor(t, 0) # NilHandler
HasValidating(t) == IsValidator(t) /\ ValidatingWebhookFor(t, 0) # NilHandler
MutatePaths(t) == IF HasMutating(t) THEN {generateMutatePath(Scheme[t])} ELSE {}
ValidatePaths(t) == IF HasValidating(t) THEN {generateValidatePath(Scheme[t])} ELSE {}

\* C1: Register is invoked at most once per path over the whole run; a
\* Complete() on a manager-bound builder for a type the scheme knows returns nil;
\* and a Complete() for a type that an earlier Complete() already succeeded for
\* registers nothing, returns nil and leaves the path table as it found it.
C1_SecondCallSkips ==
    /\ \A i, j \in DOMAIN registerLog : registerLog[i] = registerLog[j] => i = j
    /\ (Finished /\ ViaManager /\ last.apiType \in DOMAIN Scheme) => last.ret = Nil
    /\ (Finished /\ ViaManager /\ last.repeat) =>
           (last.ret = Nil /\ last.reg = <<>> /\ mux = last.before)

\* A second Complete() for a type whose first Complete() registered a webhook.
C1_Witness ==
    /\ Finished /\ ViaManager /\ last.repeat /\ last.apiType = "Both"
    /\ Count(registerLog, generateMutatePath(Scheme["Both"])) = 1
    /\ Count(registerLog, generateValidatePath(Scheme["Both"])) = 1

\* C2: when the scheme does not know the builder's type, Complete() returns the
\* type-resolution error, the path table is unchanged, and neither capability test,
\* nor Register, nor the conversion check is reached.
C2_UnknownTypeRegistersNothing ==
    (Finished /\ ViaManager /\ last.apiType \notin DOMAIN Scheme) =>
        /\ last.ret = "TypeResolutionError"
        /\ mux = last.before
        /\ last.reg = <<>>
        /\ ~Called("Defaulter?") /\ ~Called("Validator?")
        /\ ~Called("DefaultingWebhookFor") /\ ~Called("ValidatingWebhookFor")
        /\ ~Called("Register") /\ ~Called("CheckConvertibility")

\* A Complete() for the unregistered type, which implements both capabilities.
C2_Witness ==
    /\ Finished /\ ViaManager /\ last.apiType = "Unregistered"
    /\ IsDefaulter(last.apiType) /\ IsValidator(last.apiType)
    /\ last.ret = "TypeResolutionError"

\* C3: with no config set, no manager bound and the ambient config failing to
\* load, Complete() returns the config-resolution error having made no scheme
\* lookup and no registration; the path table is unchanged.
C3_NoConfigFailsFirst ==
    (Finished /\ ~ViaManager /\ last.config = Nil /\ last.ambient = "fail") =>
        /\ last.ret = "ConfigResolutionError"
        /\ last.trace = <<"getConfig">>
        /\ last.reg = <<>>
        /\ mux = last.before

\* A Complete() on a builder without manager or config whose ambient load failed.
C3_Witness ==
    /\ Finished /\ ~ViaManager /\ last.config = Nil /\ last.ambient = "fail"
    /\ last.apiType \in DOMAIN Scheme

\* C4: every Complete() that gets past config and type resolution makes both
\* capability tests and then, as its last step, the conversion check, and returns
\* nil; when that check fails the failure is only logged and each webhook the type
\* has a handler for is on the path table.
C4_ConversionFailureNotFatal ==
    (Finished /\ Called("GVKForObject") /\ last.apiType \in DOMAIN Scheme) =>
        /\ last.ret = Nil
        /\ Count(last.trace, "CheckConvertibility") = 1
        /\ last.trace[Len(last.trace)] = "CheckConvertibility"
        /\ Called("Defaulter?") /\ Called("Validator?")
        /\ CheckConvertibility(Scheme, last.apiType) # Nil =>
               /\ last.logged = <<"conversion check failed">>
               /\ MutatePaths(last.apiType) \subseteq DOMAIN mux
               /\ ValidatePaths(last.apiType) \subseteq DOMAIN mux

\* A Complete() whose conversion check failed after registering both webhooks.
C4_Witness ==
    /\ Finished /\ last.apiType = "Both" /\ last.ret = Nil
    /\ last.logged = <<"conversion check failed">>
    /\ Len(last.reg) = 2

\* C5: after a successful Complete() the registered paths are those registered
\* before, plus the mutate path if the type is a Defaulter with a non-nil handler,
\* plus the validate path if it is a Validator with a non-nil handler; for the type
\* Both these are /mutate-a-b-v1-job and /validate-a-b-v1-job.
C5_CapabilityDispatch ==
    (Finished /\ last.ret = Nil) =>
        /\ DOMAIN mux = DOMAIN last.before \cup MutatePaths(last.apiType)
                            \cup ValidatePaths(last.apiType)
        /\ last.apiType = "Both" =>
               {<<"/", "m", "u", "t", "a", "t", "e", "-", "a", "-", "b", "-",
                  "v", "1", "-", "j", "o", "b">>,
                <<"/", "v", "a", "l", "i", "d", "a", "t", "e", "-", "a", "-", "b", "-",
                  "v", "1", "-", "j", "o", "b">>} \subseteq DOMAIN mux
        /\ last.apiType = "Neither" => (mux = last.before /\ last.reg = <<>>)
        /\ last.apiType = "OnlyDefaulter" =>
               generateValidatePath(Scheme["OnlyDefaulter"]) \notin DOMAIN mux

\* A Complete() for the type with both capabilities that found its mutate path
\* already handled and still registered its validate path.
C5_Witness ==
    /\ Finished /\ last.ret = Nil /\ last.apiType = "Both"
    /\ generateMutatePath(Scheme["Both"]) \in DOMAIN last.before
    /\ last.reg = <<generateValidatePath(Scheme["Both"])>>

\* C6: Complete() ends with nil or with one of the two resolution errors, and
\* with nil unless config resolution or type resolution failed, whichever of
\* explicit config, manager or ambient environment supplied the config.
C6_SuccessUnlessResolutionFails ==
    Finished =>
        /\ last.ret \in {Nil, "ConfigResolutionError", "TypeResolutionError"}
        /\ last.ret = "ConfigResolutionError" => last.ambient = "fail"
        /\ (last.ambient # "fail") => Called("GVKForObject")

\* C8: a path counts as already handled exactly when the mux holds a handler
\* under that very path; a Complete() whose mutate path is answered only by a
\* handler under another pattern registers the mutating webhook at the path.
C8_ExactPathMatch ==
    /\ \A t \in DOMAIN Scheme :
         \A path \in {generateMutatePath(Scheme[t]), generateValidatePath(Scheme[t])} :
            isAlreadyHandled(NewCtx(NewBuilder("mgr"), mux, 0), path)
                <=> (path \in DOMAIN mux)
    /\ (/\ Finished /\ last.ret = Nil /\ HasMutating(last.apiType)
        /\ generateMutatePath(Scheme[last.apiType]) \notin DOMAIN last.before
        /\ MuxHandler(last.before, generateMutatePath(Scheme[last.apiType])).p # <<>>)
       => /\ last.reg[1] = generateMutatePath(Scheme[last.apiType])
          /\ mux[generateMutatePath(Scheme[last.apiType])].kind = "mutating"

\* A Complete() that registered at its mutate path although the catch-all
\* pattern "/" answered the lookup for it.
C8_Witness ==
    /\ Finished /\ last.ret = Nil /\ HasMutating(last.apiType)
    /\ MuxHandler(last.before, generateMutatePath(Scheme[last.apiType])).p = <<"/">>
    /\ last.reg # <<>>
    /\ last.reg[1] = generateMutatePath(Scheme[last.apiType])

\* C9: every step keeps each registered path with the handler it had, and a
\* Complete() adds no path other than the mutate and validate paths of the kind
\* its builder resolved.
C9_OnlyAdds ==
    [][/\ \A p \in DOMAIN mux : p \in DOMAIN mux' /\ mux'[p] = mux[p]
       /\ IF DOMAIN mux' = DOMAIN mux
          THEN TRUE
          ELSE (DOMAIN mux' \ DOMAIN mux) \subseteq
                   {generateMutatePath(builders'[last'.b].gvk),
                    generateValidatePath(builders'[last'.b].gvk)}]_vars

\* A Complete() for a type whose validate path was registered earlier by a type of
\* a kind spelled differently: the earlier handler is still the one on the table.
C9_Witness ==
    /\ Finished /\ last.ret = Nil /\ last.apiType = "OnlyValidator"
    /\ generateValidatePath(Scheme["OnlyValidator"]) \in DOMAIN last.before
    /\ mux[generateValidatePath(Scheme["OnlyValidator"])].type = "Both"
    /\ registerLog # <<>>

-----------------------------------------------------------------------------
(* Concurrent use: Complete() calls on different builders run interleaved.   *)
(* A step is one operation on the shared server (a mux lookup, a Register)   *)
(* with the builder-local code before it; the server makes each operation    *)
(* atomic and the builder takes no lock around the lookup and the Register.  *)

Live(b) == NewCtx(builders[b], mux, loc[b].call)

Goto(b, where) == pc' = [pc EXCEPT ![b] = where]

ConcFor(b, t) ==
    /\ pc[b] = "idle"
    /\ For(b, t)

\* Complete() up to the return of loadRestConfig
BeginComplete(b) ==
    /\ pc[b] = "idle"
    /\ ncalls < MaxCalls
    /\ ncalls' = ncalls + 1
    /\ \E ambientOk \in BOOLEAN :
         LET c == loadRestConfig(NewCtx(builders[b], mux, ncalls + 1), ambientOk)
         IN  /\ builders' = [builders EXCEPT ![b] = c.blder]
             /\ loc' = [loc EXCEPT ![b] = [NoLocals EXCEPT !.call = ncalls + 1]]
             /\ Goto(b, IF c.ret # "none" THEN "idle" ELSE "resolve")
    /\ UNCHANGED <<mux, registerLog, completed, last, gvkIn, pathOut>>

\* registerWebhooks up to the return on a type-resolution error
ResolveStep(b) ==
    /\ pc[b] = "resolve"
    /\ LET c == resolveGVK(Live(b))
       IN  /\ builders' = [builders EXCEPT ![b] = c.blder]
           /\ Goto(b, IF c.ret # "none" THEN "idle" ELSE "defaulting")
    /\ UNCHANGED <<mux, registerLog, ncalls, completed, last, loc, gvkIn, pathOut>>

\* registerDefaultingWebhook up to the answer of isAlreadyHandled
DefaultingCheck(b) ==
    /\ pc[b] = "defaulting"
    /\ LET t == builders[b].apiType
           mwh == DefaultingWebhookFor(t, loc[b].call)
           path == generateMutatePath(builders[b].gvk)
       IN  IF IsDefaulter(t) /\ mwh # NilHandler /\ ~isAlreadyHandled(Live(b), path)
           THEN /\ loc' = [loc EXCEPT ![b].path = path, ![b].hook = mwh]
                /\ Goto(b, "registerMutating")
           ELSE /\ loc' = loc
                /\ Goto(b, "validating")
    /\ UNCHANGED <<builders, mux, registerLog, ncalls, completed, last, gvkIn, pathOut>>

\* registerValidatingWebhook up to the answer of isAlreadyHandled
ValidatingCheck(b) ==
    /\ pc[b] = "validating"
    /\ LET t == builders[b].apiType
           vwh == ValidatingWebhookFor(t, loc[b].call)
           path == generateValidatePath(builders[b].gvk)
       IN  IF IsValidator(t) /\ vwh # NilHandler /\ ~isAlreadyHandled(Live(b), path)
           THEN /\ loc' = [loc EXCEPT ![b].path = path, ![b].hook = vwh]
                /\ Goto(b, "registerValidating")
           ELSE /\ loc' = loc
                /\ Goto(b, "conversion")
    /\ UNCHANGED <<builders, mux, registerLog, ncalls, completed, last, gvkIn, pathOut>>

\* blder.mgr.GetWebhookServer().Register(path, hook)
RegisterStep(b, at, then) ==
    /\ pc[b] = at
    /\ LET c == Register(Live(b), loc[b].path, loc[b].hook)
       IN  /\ mux' = c.mux
           /\ registerLog' = registerLog \o c.reg
    /\ Goto(b, then)
    /\ UNCHANGED <<builders, ncalls, completed, last, loc, gvkIn, pathOut>>

RegisterMutating(b) == RegisterStep(b, "registerMutating", "validating")
RegisterValidating(b) == RegisterStep(b, "registerValidating", "conversion")

\* the conversion check and the return of nil
ConversionStep(b) ==
    /\ pc[b] = "conversion"
    /\ checkConversion(Live(b)).ret = Nil
    /\ completed' = completed \cup {builders[b].apiType}
    /\ Goto(b, "idle")
    /\ UNCHANGED <<builders, mux, registerLog, ncalls, last, loc, gvkIn, pathOut>>

ConcNext ==
    \/ \E b \in Builders, t \in Types : ConcFor(b, t)
    \/ \E b \in Builders : BeginComplete(b)
    \/ \E b \in Builders : ResolveStep(b)
    \/ \E b \in Builders : DefaultingCheck(b)
    \/ \E b \in Builders : RegisterMutating(b)
    \/ \E b \in Builders : ValidatingCheck(b)
    \/ \E b \in Builders : RegisterValidating(b)
    \/ \E b \in Builders : ConversionStep(b)

SpecConc == Init /\ [][ConcNext]_vars

\* C10: with Complete() calls interleaved, Register is still invoked at most
\* once for each path.
C10_RegisterOncePerPath ==
    \A p \in {registerLog[i] : i \in DOMAIN registerLog} : Count(registerLog, p) <= 1

-----------------------------------------------------------------------------
(* Path generation on its own: the generators applied to one kind, compared  *)
(* with what they return for every other kind of the bounded universe.       *)

GroupChars == {"a", ".", "-"}
VersionChars == {"v", "-"}
KindChars == {"K", "k"}

Strings(chars, lo, hi) == UNION {[1..n -> chars] : n \in lo..hi}

GVKs ==
    {GVK(g, v, k) : g \in Strings(GroupChars, 0, MaxGroupLen),
                    v \in Strings(VersionChars, 1, MaxVersionLen),
                    k \in Strings(KindChars, 1, MaxKindLen)}

PathInit ==
    /\ builders = [b \in Builders |-> NewBuilder("mgr")]
    /\ mux = <<>>
    /\ registerLog = <<>>
    /\ ncalls = 0
    /\ completed = {}
    /\ last = NoCall
    /\ pc = [b \in Builders |-> "idle"]
    /\ loc = [b \in Builders |-> NoLocals]
    /\ gvkIn \in GVKs
    /\ pathOut = NoPaths

GeneratePaths ==
    /\ pathOut = NoPaths
    /\ pathOut' = [mutate |-> generateMutatePath(gvkIn),
                   validate |-> generateValidatePath(gvkIn)]
    /\ UNCHANGED <<builders, mux, registerLog, ncalls, completed, last, pc, loc, gvkIn>>

PathNext == GeneratePaths

SpecPath == PathInit /\ [][PathNext]_vars

NoDash(s) == \A i \in DOMAIN s : s[i] # "-"

\* two groups that differ at most in having a dot where the other has a dash
SameUpToDots(g, h) ==
    /\ Len(g) = Len(h)
    /\ \A i \in DOMAIN g : g[i] = h[i] \/ {g[i], h[i]} = {".", "-"}

\* two kinds that differ at most in letter case
SameUpToCase(k, l) ==
    /\ Len(k) = Len(l)
    /\ \A i \in DOMAIN k : k[i] = l[i] \/ {k[i], l[i]} = {"K", "k"}

\* C7 as stated: no other kind, whatever dots, dashes and letter case it has,
\* gets the mutate path or the validate path generated for this one.
C7_Injective ==
    pathOut # NoPaths =>
        \A o \in GVKs : o # gvkIn =>
            /\ generateMutatePath(o) # pathOut.mutate
            /\ generateValidatePath(o) # pathOut.validate

\* C7, amended: among kinds whose version and kind name hold no dash, another
\* kind gets the same mutate path, and likewise the same validate path, exactly
\* when its group differs at most in dots against dashes, its version is equal
\* and its kind name differs at most in letter case.
C7_InjectiveUpToSpelling ==
    (pathOut # NoPaths /\ NoDash(gvkIn.Version) /\ NoDash(gvkIn.Kind)) =>
        \A o \in GVKs : (NoDash(o.Version) /\ NoDash(o.Kind)) =>
            LET same == /\ SameUpToDots(o.Group, gvkIn.Group)
                        /\ o.Version = gvkIn.Version
                        /\ SameUpToCase(o.Kind, gvkIn.Kind)
            IN  /\ (generateMutatePath(o) = pathOut.mutate) <=> same
                /\ (generateValidatePath(o) = pathOut.validate) <=> same

\* The paths of group "a.", version "v", kind "K": /mutate-a--v-k and
\* /validate-a--v-k, which group "a-" with kind "k" gets as well.
C7_Witness ==
    /\ gvkIn = GVK(<<"a", ".">>, <<"v">>, <<"K">>)
    /\ pathOut.mutate = <<"/", "m", "u", "t", "a", "t", "e", "-", "a", "-", "-", "v", "-", "k">>
    /\ pathOut.validate =
           <<"/", "v", "a", "l", "i", "d", "a", "t", "e", "-", "a", "-", "-", "v", "-", "k">>
    /\ generateMutatePath(GVK(<<"a", "-">>, <<"v">>, <<"k">>)) = pathOut.mutate

====
